---- MODULE Spec2Model ----
(***************************************************************************)
(* Model of GameAlgo (src/MinMaxAlgorithm/MinMaxAlgorithm.py): the generic *)
(* minimax search family driven through host callbacks.                    *)
(*                                                                         *)
(* The host game is a finite game tree.  The position is the sequence of   *)
(* moves applied and not yet undone; a move is the index of a child.       *)
(* Python's None for KEY_BESTMOVE is modelled by None == 0 (moves are      *)
(* 1, 2, ...).  Each recursive call is a frame on an explicit call stack;  *)
(* interruptAnalyze may run between any two steps of the search.           *)
(***************************************************************************)
EXTENDS Integers, Sequences, FiniteSets, TLC

\* ------------------------------------------------------------ constants
MINMAX_ALGO == 1
MINMAXALPHABETAPRUNING_ALGO == 2
MINMAXALPHABETAPRUNINGWITHHISTORY_ALGO == 3
MINMAX_ALGO_WITH_LOGGING == -1

\* constructor defaults of GameAlgo.__init__
MIN_EVAL == -100
MAX_EVAL == 100
DEPTH == 6

None == 0

\* ------------------------------------------------------------ bounds
\* largest game tree (in positions) of the interruptible specification
MaxNodes == 4
\* largest game tree (in positions) of the uncancelled specifications
MaxNodesU == 5
\* largest depth argument of a top-level call
MaxDepthArg == 3

\* ------------------------------------------------------------ host game
\* evaluations the host returns at positions without moves
Evals == {MIN_EVAL, 0, MAX_EVAL}
\* evaluation of a position that still has moves (seen when depth runs out)
InnerEval == 0

RECURSIVE Trees(_), Forests(_)
Trees(n) ==
  IF n = 1 THEN {[score |-> s, kids |-> <<>>] : s \in Evals}
  ELSE {[score |-> InnerEval, kids |-> f] : f \in Forests(n - 1)}
Forests(m) ==
  IF m = 0 THEN {<<>>}
  ELSE UNION {{<<t>> \o f : t \in Trees(k), f \in Forests(m - k)} : k \in 1..m}

Games(n) == UNION {Trees(k) : k \in 1..n}

\* Scenario A / B of the specification: root moves [A, B], A -> [3, 5], B -> [6, 2]
Leaf(v) == [score |-> v, kids |-> <<>>]
ScenarioGame ==
  [score |-> 0,
   kids |-> << [score |-> 0, kids |-> <<Leaf(3), Leaf(5)>>],
               [score |-> 0, kids |-> <<Leaf(6), Leaf(2)>>] >>]

RECURSIVE Sub(_, _)
Sub(t, path) ==
  IF path = <<>> THEN t ELSE Sub(t.kids[Head(path)], Tail(path))

RECURSIVE ValidPath(_, _)
ValidPath(t, path) ==
  IF path = <<>> THEN TRUE
  ELSE /\ Head(path) \in 1..Len(t.kids)
       /\ ValidPath(t.kids[Head(path)], Tail(path))

VARIABLES
  game,            \* the host's game tree (root position)
  applied,         \* host position: moves applied and not undone, [who, move]
  interruptFlag,   \* self.interruptFlag
  pc,              \* "idle" | "running" | "done": the top-level call
  call,            \* arguments of the current / last top-level call
  stack,           \* call stack of the recursion, innermost frame last
  ret,             \* <<>> or <<r>>: the value the last finished call returned
  log,             \* instrumented adapter: the callbacks of this search, in order
  lifoOK,          \* instrumented adapter: every undo matched the last applied move
  movesSinceFlag,  \* move callbacks issued while interruptFlag was set
  undosSinceFlag,  \* undo callbacks issued while interruptFlag was set
  skipped,         \* siblings left unexplored by pruning breaks in this search
  returns,         \* instrumented: [at, eval, bestMove] of every call of this
                   \* search that has returned, in order of return
  prev             \* <<>> or <<p>>: the top-level call before this one, when
                   \* the caller compares the two (its call, ret, log, returns)

vars == <<game, applied, interruptFlag, pc, call, stack, ret, log,
          lifoOK, movesSinceFlag, undosSinceFlag, skipped, returns, prev>>

\* ------------------------------------------------------------ host callbacks
Path == [j \in 1..Len(applied) |-> applied[j].move]
Pos == Sub(game, Path)

evalFunc_callback == Pos.score
getListOfPossibleMovesAsMaximizer_callback == [j \in 1..Len(Pos.kids) |-> j]
getListOfPossibleMovesAsMinimizer_callback == [j \in 1..Len(Pos.kids) |-> j]

\* one callback of the host, as the instrumented adapter records it: which
\* callback, for which perspective, with which move, at which position
Event(cb, who, move) == [cb |-> cb, who |-> who, move |-> move, at |-> Path]

\* ------------------------------------------------------------ frames
\* the four recursive methods of GameAlgo
Variants == {"minimax", "minimaxWithLogging", "minMaxAlphaBetaPruning",
             "minMaxAlphaBetaPruningWithHistory"}
AlphaBeta == {"minMaxAlphaBetaPruning", "minMaxAlphaBetaPruningWithHistory"}
WithHistory(v) == v = "minMaxAlphaBetaPruningWithHistory"

\* the variants whose sibling loop starts with 'if self.interruptFlag: break'
PollsInterrupt(v) == v # "minimax"

\* a call of one of the recursive methods: its parameters and locals
NewFrame(v, depth, maximizingPlayer, alpha, beta, history) ==
  [variant |-> v, depth |-> depth, maximizingPlayer |-> maximizingPlayer,
   alpha |-> alpha, beta |-> beta, historyToThisNode |-> history,
   pc |-> "entry", moveList |-> <<>>, i |-> 1,
   best |-> [eval |-> 0, bestMove |-> None, history |-> <<>>, alias |-> FALSE]]

\* the move list a call reads: the alpha-beta variants return at depth 0
\* before reading it
ReadMoveList(f) ==
  IF f.variant \in AlphaBeta /\ f.depth = 0 THEN <<>>
  ELSE IF f.maximizingPlayer THEN getListOfPossibleMovesAsMaximizer_callback
  ELSE getListOfPossibleMovesAsMinimizer_callback

\* (variant of IsTerminal without the depth test)
IsTerminalByMoveListOnly(f, moveList) == Len(moveList) = 0

EnumerateEvents(f) ==
  IF f.variant \in AlphaBeta /\ f.depth = 0 THEN <<>>
  ELSE <<Event("enumerate", f.maximizingPlayer, None)>>

\* 'if depth == 0 or len(moveList) == 0'
IsTerminal(f, moveList) == f.depth = 0 \/ Len(moveList) = 0

\* {KEY_EVAL: bottomEval, KEY_BESTMOVE: None [, KEY_HISTORY: historyToThisNode]}
\* (depth and moveList of the returning call are kept beside the dictionary)
LeafResult(f, moveList) ==
  [eval |-> evalFunc_callback, bestMove |-> None,
   history |-> f.historyToThisNode, depth |-> f.depth, moveList |-> moveList]

\* the best-so-far a non-terminal call starts its sibling loop with
SeedEval(f) ==
  IF WithHistory(f.variant)
    THEN (IF f.maximizingPlayer THEN MIN_EVAL - 1 ELSE MAX_EVAL + 1)
    ELSE (IF f.maximizingPlayer THEN MIN_EVAL ELSE MAX_EVAL)

\* (variant of Seed with minimax's bestMove None in the alpha-beta variants too)
SeedAsMinimax(f, moveList) ==
  [eval |-> SeedEval(f),
   bestMove |-> None,
   history |-> f.historyToThisNode,
   alias |-> WithHistory(f.variant)]
\* the best-so-far a non-terminal call starts its loop with
Seed(f, moveList) ==
  [eval |-> SeedEval(f),
   bestMove |-> IF f.variant \in AlphaBeta THEN moveList[1] ELSE None,
   history |-> f.historyToThisNode,
   alias |-> WithHistory(f.variant)]

\* (variant of IsBetter with the maximizer's comparison in both loops)
IsBetterAsMaximizer(f, childEval) == childEval > f.best.eval
\* 'Is this move better?': strict improvement for the frame's perspective
IsBetter(f, childEval) ==
  IF f.maximizingPlayer THEN childEval > f.best.eval ELSE childEval < f.best.eval

\* (variant of Adopt for a recursive call that is handed historyToThisNode
\* itself, not a copy: the history stored is the list the frame appends to)
AdoptWithoutCopy(f, r) ==
  IF IsBetter(f, r.eval)
    THEN [eval |-> r.eval, bestMove |-> f.moveList[f.i],
          history |-> IF WithHistory(f.variant) THEN r.history ELSE f.best.history,
          alias |-> WithHistory(f.variant)]
    ELSE f.best
\* best-so-far after the child of moveList[i] returned r
Adopt(f, r) ==
  IF IsBetter(f, r.eval)
    THEN [eval |-> r.eval, bestMove |-> f.moveList[f.i],
          history |-> IF WithHistory(f.variant) THEN r.history ELSE f.best.history,
          alias |-> FALSE]
    ELSE f.best

\* (variant of AfterChild whose minimizer guard is
\* 'evalMinResult[KEY_EVAL] <= beta')
AfterChildGuardNotStrict(f, r) ==
  LET b1 == Adopt(f, r) IN
  IF f.variant \notin AlphaBeta THEN [f EXCEPT !.best = b1]
  ELSE IF f.maximizingPlayer
    THEN [f EXCEPT !.best = b1,
                   !.alpha = IF b1.eval > f.alpha THEN b1.eval ELSE f.alpha]
    ELSE IF b1.eval <= f.beta
      THEN [f EXCEPT !.best = [b1 EXCEPT !.eval = r.eval], !.beta = r.eval]
      ELSE [f EXCEPT !.best = b1]
\* the frame after the bookkeeping that follows a child's return:
\* best-so-far, then alpha (maximizer) or beta and best-so-far (minimizer)
AfterChild(f, r) ==
  LET b1 == Adopt(f, r) IN
  IF f.variant \notin AlphaBeta THEN [f EXCEPT !.best = b1]
  ELSE IF f.maximizingPlayer
    THEN [f EXCEPT !.best = b1,
                   !.alpha = IF b1.eval > f.alpha THEN b1.eval ELSE f.alpha]
    ELSE IF b1.eval < f.beta
      THEN [f EXCEPT !.best = [b1 EXCEPT !.eval = r.eval], !.beta = r.eval]
      ELSE [f EXCEPT !.best = b1]

\* (variant of Cutoff with the two bounds exchanged)
CutoffSwapped(f) == f.variant \in AlphaBeta /\ f.alpha <= f.beta
\* 'if beta <= alpha: break'
Cutoff(f) == f.variant \in AlphaBeta /\ f.beta <= f.alpha

\* the dictionary a non-terminal call returns
LoopResult(f) ==
  [eval |-> f.best.eval, bestMove |-> f.best.bestMove,
   history |-> f.best.history, depth |-> f.depth, moveList |-> f.moveList]

\* the callback pair a frame uses for its own perspective
MoveCallback(f) == [who |-> f.maximizingPlayer, move |-> f.moveList[f.i]]
\* (variant of UndoCallback that always takes the maximizer's undo)
UndoCallbackOfMaximizer(f) == [who |-> TRUE, move |-> f.moveList[f.i]]
UndoCallback(f) == [who |-> f.maximizingPlayer, move |-> f.moveList[f.i]]

Top == stack[Len(stack)]
SetTop(f) == [stack EXCEPT ![Len(stack)] = f]
Pop == SubSeq(stack, 1, Len(stack) - 1)

\* a call returns r to its caller; the outermost call ends the search
Return(r) ==
  /\ stack' = Pop
  /\ ret' = <<r>>
  /\ pc' = IF Len(stack) = 1 THEN "done" ELSE pc
  /\ returns' = Append(returns, [at |-> Path, eval |-> r.eval,
                                  bestMove |-> r.bestMove])

\* ------------------------------------------------------------ top-level calls
Bool == {TRUE, FALSE}
WhichAlgos == {MINMAX_ALGO, MINMAXALPHABETAPRUNING_ALGO,
               MINMAXALPHABETAPRUNINGWITHHISTORY_ALGO, MINMAX_ALGO_WITH_LOGGING}

\* the method and depth calculateMove runs for whichAlgo
Dispatch(whichAlgo, depth) ==
  IF whichAlgo = MINMAX_ALGO THEN [variant |-> "minimax", depth |-> depth]
  ELSE IF whichAlgo = MINMAXALPHABETAPRUNING_ALGO
    THEN [variant |-> "minMaxAlphaBetaPruning", depth |-> depth]
  ELSE IF whichAlgo = MINMAX_ALGO_WITH_LOGGING
    THEN [variant |-> "minimaxWithLogging", depth |-> depth]
  ELSE [variant |-> "minimax", depth |-> DEPTH]

\* the value interruptFlag has when calculateMove starts its traversal
FlagAtCalculateMove(flag) == FALSE
\* the value interruptFlag has when calculateMoveWithHistory starts its traversal
FlagAtCalculateMoveWithHistory(flag) == flag

StartSearch(entry, whichAlgo, maximizingPlayer, depth, frame) ==
  /\ pc \in {"idle", "done"}
  /\ pc' = "running"
  /\ call' = [entry |-> entry, whichAlgo |-> whichAlgo,
              maximizingPlayer |-> maximizingPlayer, depth |-> depth]
  /\ stack' = <<frame>>
  /\ ret' = <<>>
  /\ log' = <<>> /\ returns' = <<>>
  /\ movesSinceFlag' = 0 /\ undosSinceFlag' = 0 /\ skipped' = 0
  /\ UNCHANGED <<game, applied, lifoOK>>

calculateMove(whichAlgo, maximizingPlayer, depth) ==
  LET d == Dispatch(whichAlgo, depth) IN
  /\ interruptFlag' = FlagAtCalculateMove(interruptFlag)
  /\ StartSearch("calculateMove", whichAlgo, maximizingPlayer, depth,
                 NewFrame(d.variant, d.depth, maximizingPlayer,
                          MIN_EVAL, MAX_EVAL, <<>>))

\* (variant of calculateMoveWithHistory that searches to self.DEPTH, as
\* calculateMove's last branch does, instead of the depth of the call)
calculateMoveWithHistoryToDefaultDepth(whichAlgo, maximizingPlayer, depth) ==
  /\ interruptFlag' = FlagAtCalculateMoveWithHistory(interruptFlag)
  /\ IF whichAlgo = MINMAXALPHABETAPRUNINGWITHHISTORY_ALGO
       THEN StartSearch("calculateMoveWithHistory", whichAlgo, maximizingPlayer,
                        depth,
                        NewFrame("minMaxAlphaBetaPruningWithHistory", DEPTH,
                                 maximizingPlayer, MIN_EVAL, MAX_EVAL, <<>>))
       ELSE /\ pc \in {"idle", "done"}
            /\ pc' = "done"
            /\ call' = [entry |-> "calculateMoveWithHistory",
                        whichAlgo |-> whichAlgo,
                        maximizingPlayer |-> maximizingPlayer, depth |-> depth]
            /\ ret' = <<>>
            /\ log' = <<>> /\ returns' = <<>>
            /\ movesSinceFlag' = 0 /\ undosSinceFlag' = 0 /\ skipped' = 0
            /\ UNCHANGED <<game, applied, lifoOK, stack>>
calculateMoveWithHistory(whichAlgo, maximizingPlayer, depth) ==
  /\ interruptFlag' = FlagAtCalculateMoveWithHistory(interruptFlag)
  /\ IF whichAlgo = MINMAXALPHABETAPRUNINGWITHHISTORY_ALGO
       THEN StartSearch("calculateMoveWithHistory", whichAlgo, maximizingPlayer,
                        depth,
                        NewFrame("minMaxAlphaBetaPruningWithHistory", depth,
                                 maximizingPlayer, MIN_EVAL, MAX_EVAL, <<>>))
       ELSE \* myMove = None is returned at once
            /\ pc \in {"idle", "done"}
            /\ pc' = "done"
            /\ call' = [entry |-> "calculateMoveWithHistory",
                        whichAlgo |-> whichAlgo,
                        maximizingPlayer |-> maximizingPlayer, depth |-> depth]
            /\ ret' = <<>>
            /\ log' = <<>> /\ returns' = <<>>
            /\ movesSinceFlag' = 0 /\ undosSinceFlag' = 0 /\ skipped' = 0
            /\ UNCHANGED <<game, applied, lifoOK, stack>>

interruptAnalyze ==
  /\ interruptFlag' = TRUE
  /\ UNCHANGED <<game, applied, pc, call, stack, ret, log, lifoOK,
                 movesSinceFlag, undosSinceFlag, skipped, returns>>

\* ------------------------------------------------------------ the recursion
\* function entry up to the sibling loop: the terminal tests and the seed
Enter ==
  /\ pc = "running" /\ Top.pc = "entry"
  /\ LET f == Top
         moveList == ReadMoveList(f) IN
     IF IsTerminal(f, moveList)
       THEN /\ Return(LeafResult(f, moveList))
            /\ log' = log \o EnumerateEvents(f) \o <<Event("evaluate", FALSE, None)>>
       ELSE /\ stack' = SetTop([f EXCEPT !.moveList = moveList, !.i = 1,
                                         !.best = Seed(f, moveList),
                                         !.pc = "poll"])
            /\ log' = log \o EnumerateEvents(f)
            /\ UNCHANGED <<pc, ret, returns>>
  /\ UNCHANGED <<game, applied, interruptFlag, call, lifoOK,
                 movesSinceFlag, undosSinceFlag, skipped>>

\* (variant of Interrupted in which only the maximizer's loop polls the flag)
InterruptedMaximizerOnly(f, flag) ==
  PollsInterrupt(f.variant) /\ flag /\ f.maximizingPlayer
\* 'if self.interruptFlag: break' as the frame reads the flag
Interrupted(f, flag) == PollsInterrupt(f.variant) /\ flag

\* top of a sibling iteration: the for statement takes the next move, or the
\* loop ends; then the interrupt poll
Poll ==
  /\ pc = "running" /\ Top.pc = "poll"
  /\ LET f == Top IN
     IF f.i > Len(f.moveList) \/ Interrupted(f, interruptFlag)
       THEN Return(LoopResult(f))
       ELSE /\ stack' = SetTop([f EXCEPT !.pc = "move"])
            /\ UNCHANGED <<pc, ret, returns>>
  /\ UNCHANGED <<game, applied, interruptFlag, call, log, lifoOK,
                 movesSinceFlag, undosSinceFlag, skipped>>

\* 'Try a move' and recur: the move callback, the history push, the call
TryMove ==
  /\ pc = "running" /\ Top.pc = "move"
  /\ LET f == Top
         cb == MoveCallback(f)
         h == IF WithHistory(f.variant)
                THEN Append(f.historyToThisNode, f.moveList[f.i])
                ELSE f.historyToThisNode
         g == [f EXCEPT !.pc = "undo", !.historyToThisNode = h,
                        !.best.history = IF f.best.alias THEN h ELSE @]
         child == NewFrame(f.variant, f.depth - 1, ~f.maximizingPlayer,
                           f.alpha, f.beta, h) IN
     /\ applied' = Append(applied, cb)
     /\ log' = Append(log, Event("move", cb.who, cb.move))
     /\ stack' = Append(SetTop(g), child)
     /\ movesSinceFlag' = movesSinceFlag + (IF interruptFlag THEN 1 ELSE 0)
  /\ UNCHANGED <<game, interruptFlag, pc, call, ret, lifoOK,
                 undosSinceFlag, skipped, returns>>

\* the child returned: the history pop and the undo callback
UndoMove ==
  /\ pc = "running" /\ Top.pc = "undo" /\ ret # <<>>
  /\ LET f == Top
         cb == UndoCallback(f)
         h == IF WithHistory(f.variant)
                THEN SubSeq(f.historyToThisNode, 1, Len(f.historyToThisNode) - 1)
                ELSE f.historyToThisNode IN
     /\ lifoOK' = (lifoOK /\ applied # <<>> /\ applied[Len(applied)] = cb)
     /\ applied' = SubSeq(applied, 1, Len(applied) - 1)
     /\ log' = Append(log, Event("undo", cb.who, cb.move))
     /\ stack' = SetTop([f EXCEPT !.pc = "update", !.historyToThisNode = h,
                                  !.best.history = IF f.best.alias THEN h ELSE @])
     /\ undosSinceFlag' = undosSinceFlag + (IF interruptFlag THEN 1 ELSE 0)
  /\ UNCHANGED <<game, interruptFlag, pc, call, ret, movesSinceFlag,
                 skipped, returns>>

\* 'Is this move better?', the bound update and the pruning break
Update ==
  /\ pc = "running" /\ Top.pc = "update" /\ ret # <<>>
  /\ LET g == AfterChild(Top, ret[1]) IN
     IF Cutoff(g)
       THEN /\ Return(LoopResult(g))
            /\ skipped' = skipped + (Len(g.moveList) - g.i)
       ELSE /\ stack' = SetTop([g EXCEPT !.i = @ + 1, !.pc = "poll"])
            /\ ret' = <<>>
            /\ UNCHANGED <<pc, skipped, returns>>
  /\ UNCHANGED <<game, applied, interruptFlag, call, log, lifoOK,
                 movesSinceFlag, undosSinceFlag>>

Step == Enter \/ Poll \/ TryMove \/ UndoMove \/ Update

InitCommon ==
  /\ applied = <<>> /\ interruptFlag = FALSE /\ pc = "idle"
  /\ call = [entry |-> "none", whichAlgo |-> MINMAX_ALGO,
             maximizingPlayer |-> TRUE, depth |-> 0]
  /\ stack = <<>> /\ ret = <<>>
  /\ log = <<>> /\ lifoOK = TRUE
  /\ movesSinceFlag = 0 /\ undosSinceFlag = 0 /\ skipped = 0
  /\ returns = <<>> /\ prev = <<>>

Init == game \in Games(MaxNodes) /\ InitCommon

\* the caller keeps nothing of the call before / keeps what it returned
Forget == prev' = <<>>
Remember == prev' = <<[call |-> call, ret |-> ret, log |-> log, returns |-> returns]>>

Next ==
  \/ \E whichAlgo \in WhichAlgos, maximizingPlayer \in Bool, depth \in 0..MaxDepthArg :
        calculateMove(whichAlgo, maximizingPlayer, depth) /\ Forget
  \/ \E whichAlgo \in WhichAlgos, maximizingPlayer \in Bool, depth \in 0..MaxDepthArg :
        calculateMoveWithHistory(whichAlgo, maximizingPlayer, depth) /\ Forget
  \/ interruptAnalyze /\ UNCHANGED prev
  \/ Enter /\ UNCHANGED prev
  \/ Poll /\ UNCHANGED prev
  \/ TryMove /\ UNCHANGED prev
  \/ UndoMove /\ UNCHANGED prev
  \/ Update /\ UNCHANGED prev

Spec == Init /\ [][Next]_vars

\* searches nobody interrupts, on larger games
InitU == game \in Games(MaxNodesU) /\ InitCommon

NextU ==
  \/ \E whichAlgo \in WhichAlgos, maximizingPlayer \in Bool, depth \in 0..MaxDepthArg :
        calculateMove(whichAlgo, maximizingPlayer, depth) /\ Forget
  \/ \E whichAlgo \in WhichAlgos, maximizingPlayer \in Bool, depth \in 0..MaxDepthArg :
        calculateMoveWithHistory(whichAlgo, maximizingPlayer, depth) /\ Forget
  \/ Enter /\ UNCHANGED prev
  \/ Poll /\ UNCHANGED prev
  \/ TryMove /\ UNCHANGED prev
  \/ UndoMove /\ UNCHANGED prev
  \/ Update /\ UNCHANGED prev

SpecU == InitU /\ [][NextU]_vars

\* searches of the specification's Scenario A / B tree
InitScenario == game = ScenarioGame /\ InitCommon

SpecScenario == InitScenario /\ [][Next]_vars

\* a caller that makes the same top-level call again once it has returned, and
\* keeps what the first call returned; interruptAnalyze is called only when
\* no search is running
CallAgain ==
  /\ pc = "done"
  /\ IF call.entry = "calculateMove"
       THEN calculateMove(call.whichAlgo, call.maximizingPlayer, call.depth)
       ELSE calculateMoveWithHistory(call.whichAlgo, call.maximizingPlayer, call.depth)
  /\ Remember

InterruptWhileIdle == pc # "running" /\ interruptAnalyze

NextRepeat ==
  \/ \E whichAlgo \in WhichAlgos, maximizingPlayer \in Bool, depth \in 0..MaxDepthArg :
        calculateMove(whichAlgo, maximizingPlayer, depth) /\ Forget
  \/ \E whichAlgo \in WhichAlgos, maximizingPlayer \in Bool, depth \in 0..MaxDepthArg :
        calculateMoveWithHistory(whichAlgo, maximizingPlayer, depth) /\ Forget
  \/ CallAgain
  \/ InterruptWhileIdle /\ UNCHANGED prev
  \/ Enter /\ UNCHANGED prev
  \/ Poll /\ UNCHANGED prev
  \/ TryMove /\ UNCHANGED prev
  \/ UndoMove /\ UNCHANGED prev
  \/ Update /\ UNCHANGED prev

SpecRepeat == Init /\ [][NextRepeat]_vars

\* a caller that runs minMaxAlphaBetaPruning and then, on the same position
\* with the same perspective and depth, minMaxAlphaBetaPruningWithHistory, and
\* keeps what the first search returned; nobody interrupts
HistoryAfterAlphaBeta ==
  /\ pc = "done" /\ call.entry = "calculateMove"
  /\ calculateMoveWithHistory(MINMAXALPHABETAPRUNINGWITHHISTORY_ALGO,
                              call.maximizingPlayer, call.depth)
  /\ Remember

NextPair ==
  \/ \E maximizingPlayer \in Bool, depth \in 0..MaxDepthArg :
        calculateMove(MINMAXALPHABETAPRUNING_ALGO, maximizingPlayer, depth) /\ Forget
  \/ HistoryAfterAlphaBeta
  \/ Enter /\ UNCHANGED prev
  \/ Poll /\ UNCHANGED prev
  \/ TryMove /\ UNCHANGED prev
  \/ UndoMove /\ UNCHANGED prev
  \/ Update /\ UNCHANGED prev

SpecPair == InitU /\ [][NextPair]_vars

\* ------------------------------------------------------------ minimax as a function
\* GameAlgo.minimax on the position t, as the value it returns
RECURSIVE minimax(_, _, _), minimaxLoop(_, _, _, _, _)
minimax(t, depth, maximizingPlayer) ==
  IF depth = 0 \/ Len(t.kids) = 0
    THEN [eval |-> t.score, bestMove |-> None]
    ELSE minimaxLoop(t, depth, maximizingPlayer, 1,
                     [eval |-> IF maximizingPlayer THEN MIN_EVAL ELSE MAX_EVAL,
                      bestMove |-> None])
\* the sibling loop from move i on, with best-so-far best
minimaxLoop(t, depth, maximizingPlayer, i, best) ==
  IF i > Len(t.kids) THEN best
  ELSE LET evalResult == minimax(t.kids[i], depth - 1, ~maximizingPlayer)
           better == IF maximizingPlayer THEN evalResult.eval > best.eval
                     ELSE evalResult.eval < best.eval
       IN minimaxLoop(t, depth, maximizingPlayer, i + 1,
                      IF better THEN [eval |-> evalResult.eval, bestMove |-> i]
                      ELSE best)

\* ------------------------------------------------------------ observations
\* the recursive method and the depth the current top-level call started
RootVariant ==
  IF call.entry = "calculateMove"
    THEN Dispatch(call.whichAlgo, call.depth).variant
    ELSE "minMaxAlphaBetaPruningWithHistory"
RootDepth ==
  IF call.entry = "calculateMove"
    THEN Dispatch(call.whichAlgo, call.depth).depth
    ELSE call.depth

\* a search has returned its dictionary
SearchDone == pc = "done" /\ ret # <<>>
\* ... and interruptAnalyze was not called during it
Uncancelled == ~interruptFlag

\* number of callbacks cb the adapter saw for perspective who in this search
CountCb(cb, who) == Cardinality({j \in 1..Len(log) : log[j].cb = cb /\ log[j].who = who})

\* the stepwise search and the function agree on plain minimax
MinimaxAgrees ==
  (SearchDone /\ RootVariant = "minimax") =>
     /\ ret[1].eval = minimax(game, RootDepth, call.maximizingPlayer).eval
     /\ ret[1].bestMove = minimax(game, RootDepth, call.maximizingPlayer).bestMove

\* ------------------------------------------------------------ claims
\* C1: an uncancelled minMaxAlphaBetaPruning search started by calculateMove
\* with alpha = MIN_EVAL and beta = MAX_EVAL returns at the root the score
\* minimax returns for the same position, perspective and depth.
C1_AlphaBetaScoreIsMinimaxScore ==
  (SearchDone /\ RootVariant = "minMaxAlphaBetaPruning" /\ Uncancelled) =>
     ret[1].eval = minimax(game, RootDepth, call.maximizingPlayer).eval

\* an alpha-beta search that pruned below the root (the root's own cutoff
\* needs a score at the end of the range) and still returned the minimax score
C1_Witness ==
  /\ SearchDone /\ RootVariant = "minMaxAlphaBetaPruning" /\ Uncancelled
  /\ RootDepth >= 2 /\ skipped > 0
  /\ ret[1].eval = 0
  /\ ret[1].eval = minimax(game, RootDepth, call.maximizingPlayer).eval

\* C2: in every variant the move and undo callbacks are LIFO-paired: every
\* undo is the same perspective's undo of the move applied last; the moves
\* still applied are exactly the moves the frames below the innermost one are
\* trying (so each is undone before its frame tries the next sibling or
\* returns); and when the top-level call has returned nothing is left
\* applied and each perspective saw as many undo as move calls.
C2_MoveUndoLifoPaired ==
  /\ lifoOK
  /\ pc = "running" =>
       /\ Len(applied) = IF Top.pc = "undo" THEN Len(stack) ELSE Len(stack) - 1
       /\ \A j \in 1..Len(applied) :
             /\ stack[j].pc = "undo"
             /\ applied[j] = [who |-> stack[j].maximizingPlayer,
                              move |-> stack[j].moveList[stack[j].i]]
  /\ pc # "running" =>
       /\ applied = <<>>
       /\ \A p \in Bool : CountCb("move", p) = CountCb("undo", p)

\* a finished search that had a pruning break with siblings left and was
\* interrupted while moves of both perspectives had been made
C2_Witness ==
  /\ SearchDone /\ interruptFlag /\ skipped > 0 /\ undosSinceFlag >= 1
  /\ \A p \in Bool : CountCb("move", p) >= 1 /\ CountCb("move", p) = CountCb("undo", p)
  /\ applied = <<>>

\* C3: in every dictionary a call of any variant returns, bestMove is None
\* only if the call was terminal (depth == 0 or an empty move list), and a
\* non-terminal call returns a bestMove that is a member of its move list.
C3_BestMoveNoneOnlyAtTerminal ==
  ret # <<>> =>
    LET r == ret[1]
        terminal == r.depth = 0 \/ Len(r.moveList) = 0
    IN /\ r.bestMove = None => terminal
       /\ ~terminal => \E j \in 1..Len(r.moveList) : r.bestMove = r.moveList[j]

\* C4: every top-level entry point starts its traversal with
\* interruptFlag = False.
C4_SearchStartsWithFlagCleared ==
  [][(pc # "running" /\ pc' = "running") => ~interruptFlag']_vars

\* C5: in the two alpha-beta variants, once interruptFlag is set the search
\* issues at most one further move callback, and only from a frame whose poll
\* had already passed; from then on it only undoes the moves still applied,
\* which are at most depth many.
C5_InterruptStopsMoves ==
  (pc \in {"running", "done"} /\ RootVariant \in AlphaBeta) =>
     /\ movesSinceFlag <= 1
     /\ undosSinceFlag + Len(applied) <= RootDepth
     /\ (pc = "running" /\ interruptFlag /\ Top.pc = "move") => movesSinceFlag = 0

\* an alpha-beta search interrupted between a poll and its move: one more
\* move, then depth many undos, and the root's second move never tried
C5_Witness ==
  /\ SearchDone /\ RootVariant = "minMaxAlphaBetaPruning" /\ interruptFlag
  /\ RootDepth >= 2
  /\ movesSinceFlag = 1 /\ undosSinceFlag = RootDepth
  /\ Len(ret[1].moveList) >= 2 /\ skipped = 0
  /\ Cardinality({j \in 1..Len(log) : log[j].cb = "move" /\ log[j].at = <<>>}) = 1

\* C6: the score a search returns lies in [MIN_EVAL, MAX_EVAL], in every
\* variant and wherever the search was cancelled.
C6_ScoreInRange ==
  SearchDone => ret[1].eval \in MIN_EVAL..MAX_EVAL

\* the score minimax returns for the child reached by move j of the root
ChildScore(j) == minimax(game.kids[j], RootDepth - 1, ~call.maximizingPlayer).eval
\* the best of the root's child scores for the root's perspective
BestChildScore ==
  CHOOSE v \in {ChildScore(j) : j \in 1..Len(game.kids)} :
    \A j \in 1..Len(game.kids) :
       IF call.maximizingPlayer THEN ChildScore(j) <= v ELSE ChildScore(j) >= v

\* C7: minimax at a non-terminal node returns the maximum (maximizer) or
\* minimum (minimizer) of its children's scores, and as bestMove the first
\* move in enumeration order whose child has that score.
C7_MinimaxPicksFirstBestChild ==
  (SearchDone /\ RootVariant = "minimax" /\ RootDepth > 0 /\ Len(game.kids) > 0) =>
     /\ ret[1].eval = BestChildScore
     /\ ret[1].bestMove \in 1..Len(game.kids)
     /\ ChildScore(ret[1].bestMove) = BestChildScore
     /\ \A j \in 1..(ret[1].bestMove - 1) : ChildScore(j) # BestChildScore

\* the uncancelled depth-2 alpha-beta search for the maximizer has returned
ScenarioBDone ==
  /\ SearchDone /\ RootVariant = "minMaxAlphaBetaPruning" /\ Uncancelled
  /\ call.maximizingPlayer /\ RootDepth = 2
\* the second leaf under B was applied / evaluated in this search
SecondLeafUnderBApplied ==
  \E j \in 1..Len(log) : log[j].cb = "move" /\ log[j].at = <<2>> /\ log[j].move = 2
SecondLeafUnderBEvaluated ==
  \E j \in 1..Len(log) : log[j].cb = "evaluate" /\ log[j].at = <<2, 2>>

\* C8 (as stated): on the Scenario tree alpha-beta returns score 3 and
\* bestMove A, and the second leaf under B is never applied or evaluated.
C8_SecondLeafUnderBUnexplored ==
  ScenarioBDone =>
     /\ ret[1].eval = 3 /\ ret[1].bestMove = 1
     /\ ~SecondLeafUnderBApplied /\ ~SecondLeafUnderBEvaluated

\* C8 (amended): on the Scenario tree alpha-beta returns score 3 and
\* bestMove A; no cutoff fires, and the second leaf under B is applied and
\* evaluated like the other three leaves.
C8_ScenarioBExploresAllLeaves ==
  ScenarioBDone =>
     /\ ret[1].eval = 3 /\ ret[1].bestMove = 1
     /\ SecondLeafUnderBApplied /\ SecondLeafUnderBEvaluated
     /\ skipped = 0
     /\ Cardinality({j \in 1..Len(log) : log[j].cb = "evaluate"}) = 4

C8_Witness ==
  /\ ScenarioBDone /\ game = ScenarioGame
  /\ ret[1].eval = 3 /\ ret[1].bestMove = 1 /\ SecondLeafUnderBEvaluated

\* first callback of the call that is at the current position: the one after
\* the move that led here
FrameStart ==
  IF applied = <<>> THEN 1
  ELSE 1 + CHOOSE j \in 1..Len(log) :
             /\ log[j].cb = "move" /\ Len(log[j].at) = Len(applied) - 1
             /\ \A k \in (j + 1)..Len(log) :
                   ~(log[k].cb = "move" /\ Len(log[k].at) = Len(applied) - 1)
\* a call has just returned and the position is still the one it was made at
JustReturned == ret # <<>> /\ (pc = "done" \/ (pc = "running" /\ Top.pc = "undo"))

\* C9: in every variant a call made at depth == 0 or at a position whose move
\* list is empty returns the evaluation of that position and bestMove None,
\* and its only callbacks are the enumeration and the evaluation: no move and
\* no undo.
C9_TerminalCallEvaluates ==
  (JustReturned /\ (ret[1].depth = 0 \/ Len(Pos.kids) = 0)) =>
     /\ ret[1].eval = Pos.score
     /\ ret[1].bestMove = None
     /\ log # <<>> /\ log[Len(log)].cb = "evaluate"
     /\ \A j \in FrameStart..Len(log) :
           log[j].cb \in {"enumerate", "evaluate"} /\ log[j].at = Path

\* a minimax call below the root that ran out of depth at a position that
\* still has moves
C9_Witness ==
  /\ JustReturned /\ pc = "running" /\ RootVariant = "minimax"
  /\ ret[1].depth = 0 /\ Len(Pos.kids) > 0
  /\ ret[1].eval = Pos.score /\ ret[1].bestMove = None

\* C10: the KEY_HISTORY minMaxAlphaBetaPruningWithHistory returns at the root
\* is a sequence of legal moves from the root position that reaches a
\* position whose evaluation is the returned KEY_EVAL.
C10_HistoryReplaysToScore ==
  (SearchDone /\ call.entry = "calculateMoveWithHistory") =>
     /\ ValidPath(game, ret[1].history)
     /\ Sub(game, ret[1].history).score = ret[1].eval

\* the recursive method a strategy constant names
NamedVariant(whichAlgo) ==
  CASE whichAlgo = MINMAX_ALGO -> "minimax"
    [] whichAlgo = MINMAXALPHABETAPRUNING_ALGO -> "minMaxAlphaBetaPruning"
    [] whichAlgo = MINMAXALPHABETAPRUNINGWITHHISTORY_ALGO -> "minMaxAlphaBetaPruningWithHistory"
    [] OTHER -> "minimaxWithLogging"

\* C11: for each of the three strategies, calculateMove(whichAlgo,
\* maximizingPlayer, depth) runs the variant whichAlgo names, to the depth
\* given in the call, with alpha = MIN_EVAL and beta = MAX_EVAL at the root.
C11_CalculateMoveRunsNamedVariant ==
  (pc = "running" /\ call.entry = "calculateMove"
     /\ call.whichAlgo \in {MINMAX_ALGO, MINMAXALPHABETAPRUNING_ALGO,
                            MINMAXALPHABETAPRUNINGWITHHISTORY_ALGO}) =>
     /\ stack[1].variant = NamedVariant(call.whichAlgo)
     /\ stack[1].depth = call.depth
     /\ stack[1].pc = "entry" =>
          stack[1].alpha = MIN_EVAL /\ stack[1].beta = MAX_EVAL

\* what a top-level call c hands back to its caller, given the dictionary r
\* (<<>> or <<myMove>>) its traversal returned
ReturnValue(c, r) ==
  IF r = <<>> THEN <<>>
  ELSE IF c.entry = "calculateMove" THEN <<r[1].bestMove>>
  ELSE <<[eval |-> r[1].eval, bestMove |-> r[1].bestMove, history |-> r[1].history]>>

\* C12: two successive top-level calls with the same strategy, perspective and
\* depth on the same unmodified position return the same result, and after
\* each call no move is left applied to the position.
C12_RepeatedCallReturnsSame ==
  pc = "done" =>
     /\ applied = <<>>
     /\ prev # <<>> => ReturnValue(call, ret) = ReturnValue(prev[1].call, prev[1].ret)

\* C13: in every run, runs in which interruptAnalyze is called during the
\* search included, minimaxWithLogging returns the score and the bestMove
\* minimax returns for the same position, perspective and depth.
C13_LoggingReturnsWhatMinimaxReturns ==
  (SearchDone /\ RootVariant = "minimaxWithLogging") =>
     /\ ret[1].eval = minimax(game, RootDepth, call.maximizingPlayer).eval
     /\ ret[1].bestMove = minimax(game, RootDepth, call.maximizingPlayer).bestMove

\* C14: with evaluations in [MIN_EVAL, MAX_EVAL], an uncancelled
\* minMaxAlphaBetaPruningWithHistory search returns, at the root and from every
\* call below it, the score and bestMove minMaxAlphaBetaPruning returns there
\* for the same position, perspective and depth, and issues the same sequence
\* of enumerate, move, undo and evaluate callbacks.
C14_HistoryVariantDecidesAsAlphaBeta ==
  (SearchDone /\ call.entry = "calculateMoveWithHistory" /\ Uncancelled
     /\ prev # <<>>) =>
     /\ ret[1].eval = prev[1].ret[1].eval
     /\ ret[1].bestMove = prev[1].ret[1].bestMove
     /\ returns = prev[1].returns
     /\ log = prev[1].log

\* a minimizer's search in which a call below the root pruned and every move
\* of the root scores MAX_EVAL: minMaxAlphaBetaPruning keeps its seed there,
\* the history variant adopts the first child
C14_Witness ==
  /\ SearchDone /\ call.entry = "calculateMoveWithHistory" /\ Uncancelled
  /\ prev # <<>> /\ prev[1].call.whichAlgo = MINMAXALPHABETAPRUNING_ALGO
  /\ ~call.maximizingPlayer /\ RootDepth >= 2 /\ skipped > 0
  /\ ret[1].eval = MAX_EVAL /\ ret[1].bestMove = 1
  /\ Len(returns) >= 3
  /\ returns = prev[1].returns /\ log = prev[1].log

\* the moves applied from the root to the node of the k-th frame
PathTo(k) == SubSeq(Path, 1, k - 1)
\* frame f is at the top of a sibling iteration or where it returns from
AtIterationTopOrReturn(f) == f.pc \in {"entry", "poll", "move", "update"}
\* frame f has adopted a child's result: its best-so-far is no longer the seed
HasAdopted(f) == f.pc # "entry" /\ f.best.eval # SeedEval(f)
\* sequence p starts with sequence q
StartsWith(p, q) == Len(p) >= Len(q) /\ SubSeq(p, 1, Len(q)) = q

\* the buffer and the stored history of every frame of the history variant,
\* at the top of an iteration or at a return
HistoryBufferIsPath ==
  pc = "running" =>
    \A k \in 1..Len(stack) :
      (WithHistory(stack[k].variant) /\ AtIterationTopOrReturn(stack[k])) =>
         /\ stack[k].historyToThisNode = PathTo(k)
         /\ stack[k].pc # "entry" =>
              IF HasAdopted(stack[k])
                THEN /\ StartsWith(stack[k].best.history,
                                   Append(PathTo(k), stack[k].best.bestMove))
                     /\ ValidPath(game, stack[k].best.history)
                ELSE stack[k].best.history = PathTo(k)
\* a step in which a frame's adopted history changes is that frame's adoption
\* of the history its child just returned
StoredHistoryChangesOnlyByAdoption ==
  (pc = "running" /\ pc' = "running") =>
    \A k \in 1..Len(stack') :
      (k <= Len(stack) /\ WithHistory(stack[k].variant) /\ HasAdopted(stack[k])
         /\ stack'[k].best.history # stack[k].best.history) =>
         /\ k = Len(stack) /\ stack[k].pc = "update"
         /\ stack'[k].best.history = ret[1].history
         /\ stack'[k].best.eval # stack[k].best.eval

\* C15: in minMaxAlphaBetaPruningWithHistory, at the top of every sibling
\* iteration and at every return of a frame (loop end, pruning break,
\* interrupt break), the frame's historyToThisNode is the sequence of moves
\* applied and not undone from the root to the frame's node; and a history
\* stored in a best-so-far result is not changed by exploring later siblings:
\* an adopted history changes in no step but a later adoption, and the seed's
\* history (the buffer itself) is the path to the node at every iteration top.
C15_HistoryBufferTracksPath ==
  []HistoryBufferIsPath /\ [][StoredHistoryChangesOnlyByAdoption]_vars

\* the root has adopted the history of its first move and the frame of its
\* second move, one ply down, is at the top of its first iteration
C15_Witness ==
  /\ pc = "running" /\ Len(stack) = 2
  /\ WithHistory(stack[1].variant)
  /\ stack[1].i = 2 /\ HasAdopted(stack[1]) /\ stack[1].best.history = <<1>>
  /\ stack[2].pc = "poll" /\ stack[2].i = 1
  /\ stack[2].historyToThisNode = <<2>> /\ Path = <<2>>

\* the smaller of two scores
Min(a, b) == IF a <= b THEN a ELSE b
\* the scores the children of the k-th frame's node have returned so far
ChildScoresOf(k) ==
  {returns[n].eval : n \in {m \in 1..Len(returns) :
       Len(returns[m].at) = k /\ SubSeq(returns[m].at, 1, k - 1) = PathTo(k)}}
\* frame f runs the minimizer loop of one of the alpha-beta variants
InMinimizerLoop(f) ==
  f.variant \in AlphaBeta /\ ~f.maximizingPlayer /\ f.pc # "entry"

\* C16: in the minimizer loop of minMaxAlphaBetaPruning and
\* minMaxAlphaBetaPruningWithHistory, beta <= best-so-far score holds before
\* the first iteration and after every iteration; the bookkeeping after a
\* child (with its second assignment guarded by 'evalMinResult[KEY_EVAL] <
\* beta') leaves the smaller of the old best-so-far score and the child's
\* score, never a larger one; and at the top of every iteration the
\* best-so-far score is the minimum of the seed and the scores of the
\* children explored so far.
C16_MinimizerBestIsMinimum ==
  pc = "running" =>
    \A k \in 1..Len(stack) :
      InMinimizerLoop(stack[k]) =>
         /\ stack[k].beta <= stack[k].best.eval
         /\ stack[k].pc \in {"poll", "move"} =>
              \A v \in ChildScoresOf(k) \cup {SeedEval(stack[k])} :
                 /\ stack[k].best.eval <= v
                 /\ stack[k].best.eval \in ChildScoresOf(k) \cup {SeedEval(stack[k])}
         /\ (k = Len(stack) /\ stack[k].pc = "update" /\ ret # <<>>) =>
              LET g == AfterChild(stack[k], ret[1]) IN
              /\ g.best.eval = Min(stack[k].best.eval, ret[1].eval)
              /\ g.beta <= g.best.eval

\* two plies below the root a minimizer whose first child left
\* beta = best-so-far = 0 gets the score MAX_EVAL from its second child
C16_Witness ==
  /\ pc = "running" /\ Len(stack) = 3 /\ InMinimizerLoop(stack[3])
  /\ stack[3].pc = "update" /\ stack[3].i = 2 /\ ret # <<>>
  /\ stack[3].best.eval = 0 /\ stack[3].beta = 0
  /\ ret[1].eval = MAX_EVAL
  /\ AfterChild(stack[3], ret[1]).best.eval = 0

\* C17: with evaluations in [MIN_EVAL, MAX_EVAL], an uncancelled
\* calculateMove with MINMAXALPHABETAPRUNING_ALGO from a non-terminal root at
\* depth >= 1 returns the first move in enumeration order whose subtree's
\* minimax value (at depth - 1, for the opposite perspective) equals the
\* root's minimax value; a pruned sibling that returns only a bound does not
\* displace it.
C17_AlphaBetaPicksFirstBestChild ==
  (SearchDone /\ call.entry = "calculateMove"
     /\ call.whichAlgo = MINMAXALPHABETAPRUNING_ALGO /\ Uncancelled
     /\ RootDepth >= 1 /\ Len(game.kids) > 0) =>
     /\ BestChildScore = minimax(game, RootDepth, call.maximizingPlayer).eval
     /\ ret[1].bestMove \in 1..Len(game.kids)
     /\ ChildScore(ret[1].bestMove) = BestChildScore
     /\ \A j \in 1..(ret[1].bestMove - 1) : ChildScore(j) # BestChildScore

\* the root's second move has the same minimax value as its first, its
\* subtree was cut short by a pruning break, and the first move is returned
C17_Witness ==
  /\ SearchDone /\ call.entry = "calculateMove"
  /\ call.whichAlgo = MINMAXALPHABETAPRUNING_ALGO /\ Uncancelled
  /\ RootDepth >= 2 /\ Len(game.kids) = 2 /\ skipped > 0
  /\ ChildScore(1) = 0 /\ ChildScore(2) = 0
  /\ \E n \in 1..Len(returns) : returns[n].at = <<2>> /\ Len(game.kids[2].kids) = 2
  /\ ret[1].bestMove = 1

====
